---- MODULE Spec2Model ----
(***************************************************************************)
(* StrikeRadar bot (src/bot.py): the poll / diff / notify loop.            *)
(*                                                                         *)
(* The process loads its configuration from the environment, main() builds *)
(* the application and registers check_risk_job as a repeating job, and    *)
(* every run of the job fetches the JSON document, compares                *)
(* total_risk.risk with state["last_risk"] and, on a change, awaits        *)
(* send_message before it overwrites state["last_risk"].                   *)
(*                                                                         *)
(* fetch_risk_data is synchronous, so a run of check_risk_job is atomic    *)
(* from its start to the await at line 94; the rest of the run (lines      *)
(* 95-100) is a second atomic step taken when send_message returns or      *)
(* raises.  Nothing in src/bot.py keeps the timer from firing in between.  *)
(*                                                                         *)
(* Documents are typed as section 6 of the specification describes them:   *)
(* a root object, total_risk.risk an integer, detail sub-objects objects.  *)
(***************************************************************************)
EXTENDS Integers, Sequences, FiniteSets, Bags, TLC

\* ---------------------------------------------------------------- bounds
MaxRisk == 1          \* readings range over 0..MaxRisk
MaxInflight == 2      \* runs of check_risk_job suspended in send_message

\* ------------------------------------------------------------ data model
\* Python's None, and a present value, as a sequence of length 0 or 1.
None == <<>>
Some(x) == <<x>>

Risks == 0 .. MaxRisk

DetailNames == {"pentagon", "tankers", "flight", "polymarket", "weather"}

\* A detail sub-object of the document: missing, an object without a
\* "detail" key, or an object with one.
NoDetails == [n \in DetailNames |-> "absent"]
MixedDetails == [n \in DetailNames |->
                   IF n = "pentagon" THEN "no_detail"
                   ELSE IF n = "weather" THEN "absent" ELSE "text"]
DetailVariants == {NoDetails, MixedDetails}

\* The JSON documents the source can hold: {} ; an object without
\* total_risk ; total_risk without risk ; total_risk.risk = r.
Doc(k, r, d) == [kind |-> k, risk |-> r, details |-> d]
Docs == {Doc(k, 0, NoDetails) : k \in {"empty", "no_total_risk", "no_risk"}}
          \cup {Doc("ok", r, d) : r \in Risks, d \in DetailVariants}

\* What the environment can hold for each setting read at lines 12-16.
\* A CHECK_INTERVAL that is an integer literal behaves as an unset one.
Environments ==
    [BOT_TOKEN : {"missing", "valid"},
     API_LOCAL_URL : {"missing", "valid"},
     JSON_URL : {"missing", "set"},
     CHECK_INTERVAL : {"unset", "non_numeric"}]

VARIABLES
    environ,     \* os.environ after load_dotenv()
    pc,          \* the process: "load", "main", "running", "exited", "stopped"
    last_risk,   \* state["last_risk"]
    source,      \* the document the data source holds now
    inflight,    \* bag of the runs suspended in await send_message
    notified,    \* whether send_message was ever called
    fetched,     \* the reading of the latest fetch that returned one
    written_by,  \* which line wrote last_risk last
    tick,        \* parity of the number of runs of the job started so far
    ev,          \* the step taken last, with what it saw and did
    chain        \* the send attempts made so far, while no two runs overlapped

vars == <<environ, pc, last_risk, source, inflight, notified, fetched,
          written_by, tick, ev, chain>>

\* ------------------------------------------------------- configuration
TOKEN == environ.BOT_TOKEN
LOCAL_API_URL == environ.API_LOCAL_URL
JSON_URL == environ.JSON_URL

\* int(os.getenv("CHECK_INTERVAL", 30)) raises ValueError on a value that
\* is no integer literal; an unset variable gives the default.
IntervalParses == environ.CHECK_INTERVAL # "non_numeric"

\* ApplicationBuilder().token(TOKEN).base_url(...).build(), initialize()
\* and start(): a missing token or API base makes main() raise.
StartupRaises == TOKEN = "missing" \/ LOCAL_API_URL = "missing"

\* ------------------------------------------------------------- helpers
Event(k, before, cur, msgs, busy, w, doc, after_fail) ==
    [kind |-> k, before |-> before, cur |-> cur, msgs |-> msgs,
     busy |-> busy, writer |-> w, doc |-> doc, after_fail |-> after_fail]

\* Mutant: the sign written is the opposite one.
FormatSigned_Reversed(diff) ==
    IF diff > 0 THEN <<"-", diff>> ELSE <<"+", 0 - diff>>

\* f"{diff:+}": the sign is always written, then the magnitude.
FormatSigned(diff) ==
    IF diff >= 0 THEN <<"+", diff>> ELSE <<"-", 0 - diff>>

\* The number a signed text stands for, as the reader of a message takes it.
ParseSigned(text) == IF text[1] = "+" THEN text[2] ELSE 0 - text[2]

\* The record of the attempts after one more: the sum of the deltas and the
\* value the last attempt announced.  A sum that has left the range of
\* readings is kept as it is.
Chained(c, message) ==
    [sum_end |-> IF c.sum_end \in Risks
                 THEN c.sum_end + ParseSigned(message.diff)
                 ELSE c.sum_end,
     last_cur |-> message.current]

\* Mutant: the two markers exchanged.
Emoji_Swapped(current_risk, last) ==
    IF current_risk > last THEN "down" ELSE "up"

\* emoji = up if current_risk > last_risk else down
Emoji(current_risk, last) ==
    IF current_risk > last THEN "up" ELSE "down"

\* data.get(name, {}).get("detail", "N/A")
Detail(data, name) ==
    IF data.details[name] = "text" THEN "text" ELSE "N/A"

Message(data, current_risk, last) ==
    [current |-> current_risk,
     emoji |-> Emoji(current_risk, last),
     diff |-> FormatSigned(current_risk - last),
     previous |-> last,
     details |-> [n \in DetailNames |-> Detail(data, n)]]

\* The outcomes of fetch_risk_data(): it raises (JSON_URL is None, line 34
\* is outside both try blocks), returns None (request or file or JSON
\* error, caught at lines 40 and 48), or returns the document.
fetch_risk_data ==
    IF JSON_URL = "missing"
    THEN {[raised |-> TRUE, data |-> None]}
    ELSE {[raised |-> FALSE, data |-> None],
          [raised |-> FALSE, data |-> Some(source)]}

\* Mutant: only a failed fetch is skipped; a missing key reads as 0.
NoReading_OnlyNone(data) == data = None

\* if not data or "total_risk" not in data: return
NoReading(data) ==
    \/ data = None
    \/ data[1].kind \in {"empty", "no_total_risk"}

\* Mutant: the job registered with run_once instead of run_repeating.
TimerMayFire_Once == BagCardinality(inflight) < MaxInflight /\ tick = 0

\* Whether the job queue may start a run of the job now.  Line 122 passes
\* no option that restricts concurrent runs, and check_risk_job takes no
\* lock; the bound only keeps the model finite.
TimerMayFire == BagCardinality(inflight) < MaxInflight

\* Mutant: line 100 puts the previous reading back.
StoredAfterSend_Previous(run) == Some(run.last_risk)

\* Mutant: line 100 clears the stored reading.
StoredAfterSend_Cleared(run) == None

\* The value line 100 stores.
StoredAfterSend(run) == Some(run.current_risk)

\* Mutant: the first run does not store its reading.
StoredAsBaseline_Unset(current_risk) == None

\* The value line 64 stores on the first run.
StoredAsBaseline(current_risk) == Some(current_risk)

\* Mutant: a run without a reading stores 0.
KeptOnNoReading_Zero == Some(0)

\* Mutant: a run without a reading resets the stored reading.
KeptOnNoReading_Reset == None

\* What a run that returns at line 57 leaves in state["last_risk"].
KeptOnNoReading == last_risk

\* Mutant: a stored 0 is taken for a reading never stored.
FirstRun_Falsy(last) == last = None \/ last = Some(0)

\* if last_risk is None
FirstRun(last) == last = None

\* Mutant: only an increase counts as a change.
Changed_OnlyIncrease(current_risk, last) == current_risk > last

\* Mutant: every reading counts as a change.
Changed_Always(current_risk, last) == TRUE

\* if current_risk != last_risk
Changed(current_risk, last) == current_risk # last

\* ---------------------------------------------------------------- Init
Init ==
    /\ environ \in Environments
    /\ pc = "load"
    /\ last_risk = None
    /\ source \in Docs
    /\ inflight = EmptyBag
    /\ notified = FALSE
    /\ fetched = None
    /\ written_by = "none"
    /\ tick = 0
    /\ ev = Event("start", None, None, <<>>, 0, "none", "none", FALSE)
    /\ chain = None

\* ------------------------------------------------------------- actions
\* Module load, lines 10-26.
LoadModule ==
    /\ pc = "load"
    /\ pc' = IF IntervalParses THEN "main" ELSE "exited"
    /\ last_risk' = None
    /\ ev' = Event(IF IntervalParses THEN "loaded" ELSE "load_error",
                   last_risk, None, <<>>, 0, written_by, "none", FALSE)
    /\ UNCHANGED <<environ, source, inflight, notified, fetched, written_by,
                   tick, chain>>

\* main(), lines 103-132: build, initialize, start, register the job.
main ==
    /\ pc = "main"
    /\ pc' = IF StartupRaises THEN "exited" ELSE "running"
    /\ ev' = Event(IF StartupRaises THEN "startup_error" ELSE "live",
                   last_risk, None, <<>>, 0, written_by, "none", FALSE)
    /\ UNCHANGED <<environ, last_risk, source, inflight, notified, fetched,
                   written_by, tick, chain>>

\* One run of check_risk_job up to its return or its await, lines 53-94.
check_risk_job ==
    /\ pc = "running"
    /\ TimerMayFire
    /\ \E res \in fetch_risk_data :
         LET busy == BagCardinality(inflight)
             data == res.data
             \* the run before this one failed to fetch, and no run is
             \* in progress
             after_fail == ev.kind = "fetch_failed" /\ inflight = EmptyBag
             \* the record of the attempts is kept only while runs do not
             \* overlap
             Serial(c) == IF busy = 0 THEN c ELSE None
         IN
         IF res.raised
         THEN \* AttributeError at line 34
              /\ ev' = Event("raised", last_risk, None, <<>>, busy, written_by,
                             "none",
                             after_fail)
              /\ chain' = Serial(chain)
              /\ UNCHANGED <<last_risk, inflight, notified, fetched, written_by>>
         ELSE IF NoReading(data)
         THEN \* line 57
              /\ last_risk' = KeptOnNoReading
              /\ ev' = Event(IF data = None THEN "fetch_failed" ELSE "no_reading",
                             last_risk, None, <<>>, busy, written_by,
                             IF data = None THEN "none" ELSE data[1].kind,
                             after_fail)
              /\ chain' = Serial(chain)
              /\ UNCHANGED <<inflight, notified, fetched, written_by>>
         ELSE IF data[1].kind = "no_risk"
         THEN \* KeyError at line 59
              /\ ev' = Event("raised", last_risk, None, <<>>, busy, written_by,
                             data[1].kind,
                             after_fail)
              /\ chain' = Serial(chain)
              /\ UNCHANGED <<last_risk, inflight, notified, fetched, written_by>>
         ELSE LET current_risk == data[1].risk IN
              /\ fetched' = Some(current_risk)
              /\ IF FirstRun(last_risk)
                 THEN \* lines 63-66
                      /\ last_risk' = StoredAsBaseline(current_risk)
                      /\ written_by' = "baseline"
                      /\ ev' = Event("baseline", last_risk, Some(current_risk),
                                     <<>>, busy, written_by, data[1].kind,
                             after_fail)
                      /\ chain' = Serial(Some([sum_end |-> current_risk,
                                                 last_cur |-> current_risk]))
                      /\ UNCHANGED <<inflight, notified>>
                 ELSE IF Changed(current_risk, last_risk[1])
                 THEN \* lines 71-94
                      LET message == Message(data[1], current_risk, last_risk[1]) IN
                      /\ notified' = TRUE
                      /\ inflight' = inflight (+) SetToBag(
                             {[current_risk |-> current_risk,
                               last_risk |-> last_risk[1]]})
                      /\ ev' = Event("sending", last_risk, Some(current_risk),
                                     <<message>>, busy, written_by,
                                     data[1].kind,
                             after_fail)
                      /\ chain' = IF chain = None THEN None
                                   ELSE Serial(Some(Chained(chain[1], message)))
                      /\ UNCHANGED <<last_risk, written_by>>
                 ELSE \* the reading did not change
                      /\ ev' = Event("equal", last_risk, Some(current_risk),
                                     <<>>, busy, written_by, data[1].kind,
                             after_fail)
                      /\ chain' = Serial(chain)
                      /\ UNCHANGED <<last_risk, inflight, notified, written_by>>
    /\ tick' = 1 - tick
    /\ UNCHANGED <<environ, pc, source>>

\* send_message returns or raises, and the run ends: lines 95-100.
send_returns ==
    /\ pc = "running"
    /\ \E run \in BagToSet(inflight), ok \in BOOLEAN :
         /\ last_risk' = StoredAfterSend(run)
         /\ written_by' = IF ok THEN "sent" ELSE "send_failed"
         /\ inflight' = inflight (-) SetToBag({run})
         /\ ev' = Event(IF ok THEN "sent" ELSE "send_failed", last_risk,
                        Some(run.current_risk), <<>>,
                        BagCardinality(inflight) - 1, written_by, "none", FALSE)
    /\ UNCHANGED <<environ, pc, source, notified, fetched, tick, chain>>

\* The data source publishes another document.
SourceChanges ==
    /\ source' \in Docs \ {source}
    /\ UNCHANGED <<environ, pc, last_risk, inflight, notified, fetched,
                   written_by, tick, ev, chain>>

\* KeyboardInterrupt or SystemExit, lines 136-139: the event loop is torn
\* down and the suspended runs with it.
Interrupt ==
    /\ pc = "running"
    /\ pc' = "stopped"
    /\ inflight' = EmptyBag
    /\ ev' = Event("interrupted", last_risk, None, <<>>,
                   BagCardinality(inflight), written_by, "none", FALSE)
    /\ UNCHANGED <<environ, last_risk, source, notified, fetched, written_by,
                   tick, chain>>

Next ==
    \/ LoadModule
    \/ main
    \/ check_risk_job
    \/ send_returns
    \/ SourceChanges
    \/ Interrupt

Spec == Init /\ [][Next]_vars

\* Fairness the scheduling gives: the repeating job keeps being started
\* (line 122) and an awaited send_message returns or raises.
SpecFair ==
    Spec /\ WF_vars(check_risk_job) /\ WF_vars(send_returns)

\* A run of the job whose fetch returns a document with a reading.
fetch_succeeds == check_risk_job /\ ev'.doc = "ok"

\* The fairness of SpecFair, and fetches that succeed again and again
\* while the source holds a reading.
SpecFetchFair == SpecFair /\ SF_vars(fetch_succeeds)

\* =============================================================== claims
\* The kinds of event a step of check_risk_job leaves in ev.
CycleKinds ==
    {"raised", "fetch_failed", "no_reading", "baseline", "sending", "equal"}

\* C1: starting from last_risk = None, the first run whose fetch returns a
\* reading stores it in last_risk and calls send_message zero times; and no
\* send_message call is made while last_risk has never been set.
C1_FirstReadingIsSilentBaseline ==
    /\ (last_risk = None => ~notified /\ inflight = EmptyBag)
    /\ (ev.kind \in CycleKinds /\ ev.before = None /\ ev.cur # None
          => /\ ev.kind = "baseline"
             /\ last_risk = ev.cur
             /\ ev.msgs = <<>>)

C1_Witness ==
    /\ ev.kind = "baseline"
    /\ ev.before = None
    /\ last_risk = Some(1)
    /\ ~notified

\* C2: a run that starts with no other run in progress, finds last_risk =
\* R1 and reads R2 # R1 makes exactly one send_message call; its message
\* carries R2 as current value, R1 as previous value, the signed delta
\* R2 - R1 and the upward marker when R2 > R1, the downward one when
\* R2 < R1 (40 -> 55 gives +15 up, 55 -> 30 gives -25 down); the rest of
\* the run makes no further call.
C2_ChangeNotifiedOnce ==
    /\ (ev.kind \in CycleKinds /\ ev.busy = 0 /\ ev.before # None
           /\ ev.cur # None /\ ev.cur # ev.before
          => /\ ev.kind = "sending"
             /\ Len(ev.msgs) = 1
             /\ LET m == ev.msgs[1]
                    R1 == ev.before[1]
                    R2 == ev.cur[1]
                IN /\ m.current = R2
                   /\ m.previous = R1
                   /\ ParseSigned(m.diff) = R2 - R1
                   /\ m.diff[1] = (IF R2 > R1 THEN "+" ELSE "-")
                   /\ m.emoji = (IF R2 > R1 THEN "up" ELSE "down"))
    /\ (ev.kind \in {"sent", "send_failed"} => ev.msgs = <<>>)
    /\ LET up == Message(Doc("ok", 55, NoDetails), 55, 40)
           down == Message(Doc("ok", 30, NoDetails), 30, 55)
       IN /\ up.diff = <<"+", 15>> /\ up.emoji = "up"
          /\ down.diff = <<"-", 25>> /\ down.emoji = "down"

C2_Witness ==
    /\ ev.kind = "sending"
    /\ ev.busy = 0
    /\ ev.before = Some(1)
    /\ ev.cur = Some(0)
    /\ ev.msgs[1].emoji = "down"
    /\ ev.msgs[1].diff = <<"-", 1>>
    /\ ev.msgs[1].previous = 1

\* C3: a run that reads a value equal to the stored last_risk makes no
\* send_message call and leaves last_risk as it was.
C3_EqualReadingIsSilent ==
    ev.kind \in CycleKinds /\ ev.before # None /\ ev.cur = ev.before
      => /\ ev.kind = "equal"
         /\ ev.msgs = <<>>
         /\ last_risk = ev.before
         /\ BagCardinality(inflight) = ev.busy

C3_Witness ==
    /\ ev.kind = "equal"
    /\ ev.before = Some(1)
    /\ last_risk = Some(1)

\* C4: a run whose fetch fails (fetch_risk_data returns None) leaves
\* last_risk as it was, set or unset, makes no send_message call and leaves
\* no work behind: nothing of it is in progress after it.
C4_FetchFailureChangesNothing ==
    ev.kind = "fetch_failed"
      => /\ last_risk = ev.before
         /\ ev.msgs = <<>>
         /\ BagCardinality(inflight) = ev.busy

C4_Witness ==
    /\ ev.kind = "fetch_failed"
    /\ ev.before = Some(1)
    /\ last_risk = Some(1)

\* C5: when send_message raises, last_risk still becomes the new reading at
\* the end of that run, and the notification is not attempted again: a
\* later run that reads that same value, with last_risk as the failed run
\* wrote it, makes no send_message call.
C5_SendFailureStillUpdates ==
    /\ (ev.kind = "send_failed" => last_risk = ev.cur)
    /\ (ev.kind \in CycleKinds /\ ev.writer = "send_failed"
           /\ ev.cur = ev.before
          => ev.kind = "equal" /\ ev.msgs = <<>>)

C5_Witness ==
    /\ ev.kind = "equal"
    /\ ev.writer = "send_failed"
    /\ ev.cur = last_risk
    /\ notified

C7_BaselineIsMonotone ==
    [][last_risk # None => last_risk' # None]_vars

C7_Witness ==
    /\ last_risk # None
    /\ ev.kind = "send_failed"
    /\ ev.before # None

C9_CyclesKeepRunning ==
    /\ [][pc = "running" => pc' \in {"running", "stopped"}]_vars
    /\ []<>(pc # "running" \/ tick = 0)
    /\ []<>(pc # "running" \/ tick = 1)

C9_Witness ==
    /\ pc = "running"
    /\ ev.kind = "raised"
    /\ tick = 0

\* C10: when a required setting is missing or invalid (bot token, API
\* base, JSON_URL, a non-numeric CHECK_INTERVAL) the process exits before
\* any run of check_risk_job: no run of the job ever happens.
BadConfiguration ==
    \/ TOKEN = "missing"
    \/ LOCAL_API_URL = "missing"
    \/ JSON_URL = "missing"
    \/ ~IntervalParses

C10_BadConfigurationIsFatal ==
    BadConfiguration => ev.kind \notin CycleKinds /\ tick = 0

\* C11: a run whose fetched document parses but holds no risk field ({} ,
\* no total_risk key, or total_risk without risk) yields no reading: it
\* makes no send_message call, leaves last_risk as it was and nothing in
\* progress, and the process keeps running, so later runs start as usual.
LacksRisk == {"empty", "no_total_risk", "no_risk"}

C11_MissingFieldIsNoReading ==
    ev.kind \in CycleKinds /\ ev.doc \in LacksRisk
      => /\ ev.cur = None
         /\ ev.msgs = <<>>
         /\ last_risk = ev.before
         /\ BagCardinality(inflight) = ev.busy
         /\ pc = "running"
         /\ (TimerMayFire => ENABLED check_risk_job)

C11_Witness ==
    /\ ev.kind = "raised"
    /\ ev.doc = "no_risk"
    /\ last_risk = Some(1)
    /\ pc = "running"

\* The source holds reading V, the job is registered and JSON_URL is set.
SettledAt(V) ==
    /\ pc = "running"
    /\ JSON_URL = "set"
    /\ source.kind = "ok"
    /\ source.risk = V

C14_ComparedAcrossFailures ==
    /\ [][ev.kind = "fetch_failed" /\ tick' # tick
            => ev'.before = ev.before]_vars
    /\ [](ev.kind \in CycleKinds /\ ev.after_fail /\ ev.doc = "ok"
            /\ ev.before # None
          => IF ev.cur # ev.before
             THEN /\ ev.kind = "sending"
                  /\ Len(ev.msgs) = 1
                  /\ ev.msgs[1].previous = ev.before[1]
                  /\ ev.msgs[1].current = ev.cur[1]
             ELSE /\ ev.kind = "equal"
                  /\ ev.msgs = <<>>)

C14_Witness ==
    /\ ev.kind = "sending"
    /\ ev.after_fail
    /\ ev.before = Some(1)
    /\ ev.msgs[1].previous = 1
    /\ ev.msgs[1].current = 0

\* C15: while no two runs have overlapped, the send attempts chain: the
\* previous value of each attempt is the value the attempt before it
\* announced (the baseline for the first), so whenever no run is in
\* progress last_risk is the baseline plus the sum of the deltas of all the
\* attempts made so far, whether their sends succeeded or failed; and no
\* attempt has delta 0.
C15_AttemptsChain ==
    /\ [][tick' # tick /\ ev'.kind = "sending" /\ chain' # None
            => ev'.msgs[1].previous = chain[1].last_cur]_vars
    /\ [](pc = "running" /\ chain # None /\ inflight = EmptyBag
            => last_risk = Some(chain[1].sum_end))
    /\ [](ev.kind = "sending" => ParseSigned(ev.msgs[1].diff) # 0)

\* A second attempt, after one whose send succeeded, has failed to send and
\* no run is in progress.
C15_Witness ==
    /\ pc = "running"
    /\ ev.kind = "send_failed"
    /\ ev.writer = "sent"
    /\ ev.before = Some(0)
    /\ chain = Some([sum_end |-> 1, last_cur |-> 1])
    /\ inflight = EmptyBag

\* C16: 0 is a reading like any other.  A first reading of 0 is stored as
\* the baseline and last_risk then counts as set: a run that finds
\* last_risk = 0 is never a first run, and when its reading is not 0 it
\* makes one send_message call with previous value 0; a run that finds a
\* non-zero last_risk and reads 0 makes one send_message call with the
\* downward marker.
C16_ZeroIsAReading ==
    /\ (ev.kind = "baseline" /\ ev.cur = Some(0)
          => last_risk = Some(0) /\ ~FirstRun(last_risk))
    /\ (ev.kind \in CycleKinds /\ ev.before = Some(0) /\ ev.cur # None
          => /\ ev.kind # "baseline"
             /\ (ev.cur # Some(0)
                   => /\ ev.kind = "sending"
                      /\ Len(ev.msgs) = 1
                      /\ ev.msgs[1].previous = 0
                      /\ ev.msgs[1].current = ev.cur[1]))
    /\ (ev.kind \in CycleKinds /\ ev.before \notin {None, Some(0)}
            /\ ev.cur = Some(0)
          => /\ ev.kind = "sending"
             /\ Len(ev.msgs) = 1
             /\ ev.msgs[1].emoji = "down"
             /\ ev.msgs[1].diff[1] = "-"
             /\ ev.msgs[1].current = 0
             /\ ev.msgs[1].previous = ev.before[1])

\* The run after a baseline of 0 reads 1 and notifies.
C16_Witness ==
    /\ ev.kind = "sending"
    /\ ev.writer = "baseline"
    /\ ev.before = Some(0)
    /\ ev.cur = Some(1)
    /\ ev.msgs[1].previous = 0

====
